---- MODULE Spec2Model ----
(***************************************************************************)
(* A model of the client of the Unmasked deepfake-detection application:   *)
(* the authentication context and route guards, the admin content page,    *)
(* the polling components, the fetch wrappers, the upload queue, the       *)
(* dashboard quick-analysis card and the forum.                            *)
(*                                                                         *)
(* Every asynchronous handler is split at its awaits: one action for the   *)
(* synchronous part up to the request, one for the continuation that runs  *)
(* when the response arrives.  Responses are chosen nondeterministically   *)
(* among the outcomes the server and the network can produce.              *)
(***************************************************************************)
EXTENDS Integers, Sequences, FiniteSets, TLC

VARIABLES
    \* ---- AuthContext (AuthProvider) ----
    storage,        \* localStorage["authSession"]
    user,           \* useState<User | null>
    isLoading,      \* useState(true)
    mounted,        \* the mount effect has run checkAuth
    verifying,      \* checkAuth calls awaiting POST /auth/verify, with the session each read
    loginPending,   \* login calls awaiting POST /auth/login
    loginResult,    \* what the last login call that returned has returned
    loginData,      \* the response that call had received
    pendingSaves,   \* Profile.handleSave calls that will reach `await checkAuth()`
    loginOk,        \* history: a login call has succeeded since the page was loaded
    verifiedOk,     \* history: a verify call has answered OK/success since the page was loaded
    loggedOut       \* history: logout was called and no login has succeeded since

authVars == <<storage, user, isLoading, mounted, verifying, loginPending,
              loginResult, loginData, pendingSaves, loginOk, verifiedOk, loggedOut>>

\* ---- AdminContent ----
VARIABLES
    serverReports,   \* the ids of the reports the backend holds
    reports,         \* useState<Report[]>([])
    filteredReports, \* useState<Report[]>([])
    contentLoading,  \* AdminContent's isLoading
    searchQuery,     \* useState("")
    selectedReport,  \* useState<Report | null>(null)
    showDeleteDialog,
    isDeleting,
    fetches,         \* getAllReports requests in flight
    deletes,         \* deleteReport requests in flight
    deletedOk        \* history: the reports deleteReport has returned success for

contentVars == <<serverReports, reports, filteredReports, contentLoading, searchQuery,
                 selectedReport, showDeleteDialog, isDeleting, fetches, deletes,
                 deletedOk>>

\* ---- The polling components: AppHeader, Dashboard, Forum ----
VARIABLES
    compMounted,     \* which of the components are mounted
    timers,          \* the interval timers that are active (setInterval, not yet cleared)
    effectTimer,     \* per component: the timer its effect's cleanup will clear, 0 for none
    pollStep,        \* per component: what its effect or timer did in the last step
    pollFetched,     \* per component: the fetch calls it issued in the last step
    forumSearch,     \* Forum's searchQuery
    topicFilter      \* Forum's topicFilter

pollVars == <<compMounted, timers, effectTimer, pollStep, pollFetched, forumSearch,
              topicFilter>>

\* ---- The fetch wrappers (services/*.ts) ----
VARIABLES
    apiPhase,        \* "idle", "fetching" (awaiting fetch) or "returned"
    apiMethod,       \* the service method called
    apiRequests,     \* the HTTP requests the call has issued
    apiOutcome,      \* what the network and the server did with the request
    apiResult        \* how the method's promise settled

apiVars == <<apiPhase, apiMethod, apiRequests, apiOutcome, apiResult>>

\* ---- The Upload page and the Dashboard's quick-analysis card ----
VARIABLES
    page,            \* the page that is open: "upload" or "dashboard"
    fileInfo,        \* the type and size of each File object the user can pick
    jobs,            \* per File: its interval timer and the requests made for it
    files,           \* UploadPage: useState<UploadedFile[]>([])
    selectedFile,    \* Dashboard: useState<File | null>(null)
    uploadProgress,  \* Dashboard: useState(0)
    uploading,       \* Dashboard: useState(false)
    analyzing,       \* Dashboard: useState(false)
    predictionResult,\* Dashboard: useState<PredictionResult | null>(null)
    predictionFor,   \* history: the File whose analysis predictionResult came from
    picked           \* history: the File last passed to Dashboard.handleFileSelect

uploadVars == <<page, fileInfo, jobs, files, selectedFile, uploadProgress, uploading,
                analyzing, predictionResult, predictionFor, picked>>

\* ---- The Forum page ----
VARIABLES
    posts,           \* useState<ForumPost[]>([])
    comments,        \* useState<Record<string, ForumComment[]>>({})
    deleteDialog,    \* useState({ open: false, type: 'post', id: '' })
    handleDeletes,   \* the calls of handleDelete that are at one of their awaits
    deleteRequests   \* history: the deletePost / deleteComment requests issued

forumVars == <<posts, comments, deleteDialog, handleDeletes, deleteRequests>>

\* ---- The Profile page ----
VARIABLES
    profile,         \* useState<UserProfile | null>(null)
    nameField,       \* name: useState("")
    currentPassword, \* useState("")
    newPassword,     \* useState("")
    confirmPassword, \* useState("")
    isSaving,        \* useState(false)
    saving,          \* the await the running handleSave is at, "none" for no call
    serverName,      \* the name the backend holds for the user
    lastSave         \* history: what the last call of handleSave found and did

profileVars == <<profile, nameField, currentPassword, newPassword, confirmPassword,
                 isSaving, saving, serverName, lastSave>>

\* ---- The Forum's feed: fetchPosts ----
VARIABLES
    getPostsCalls,   \* fetchPosts calls awaiting getPosts, with the filters each sent
    getPostsIssued,  \* how many getPosts requests have been issued
    latestGetPosts,  \* history: what the request issued last has come to
    postsFor         \* history: the filters of the request whose answer is in posts

feedVars == <<getPostsCalls, getPostsIssued, latestGetPosts, postsFor>>

\* ---- AppHeader: the notifications dropdown ----
VARIABLES
    notifications,     \* useState<Notification[]>([])
    unreadCount,       \* useState(0)
    notificationCalls, \* fetchNotifications calls awaiting getNotifications
    markCalls          \* handleMarkAsRead calls awaiting markNotificationRead

headerVars == <<notifications, unreadCount, notificationCalls, markCalls>>

vars == <<authVars, contentVars, pollVars, apiVars, uploadVars, forumVars, profileVars,
          feedVars, headerVars>>

nonAuth == <<contentVars, pollVars, apiVars, uploadVars, forumVars, profileVars, feedVars, headerVars>>
nonContent == <<authVars, pollVars, apiVars, uploadVars, forumVars, profileVars, feedVars, headerVars>>
nonPoll == <<contentVars, apiVars, uploadVars, forumVars, profileVars, feedVars, headerVars>>
nonApi == <<authVars, contentVars, pollVars, uploadVars, forumVars, profileVars, feedVars, headerVars>>
nonUpload == <<authVars, contentVars, pollVars, apiVars, forumVars, profileVars, feedVars, headerVars>>
nonForum == <<authVars, contentVars, pollVars, apiVars, uploadVars, profileVars, feedVars, headerVars>>
nonProfile == <<authVars, contentVars, pollVars, apiVars, uploadVars, forumVars, feedVars, headerVars>>
nonFeed == <<authVars, contentVars, apiVars, uploadVars, profileVars, headerVars,
             comments, deleteDialog, handleDeletes, deleteRequests>>
nonHeader == <<authVars, contentVars, pollVars, apiVars, uploadVars, forumVars,
               profileVars, feedVars>>

\* null as a value of User | null
Null == [id |-> "null", role |-> "none"]

-----------------------------------------------------------------------------
(* Bounds *)

MaxChecks == 2      \* checkAuth calls in flight at once
MaxLogins == 1      \* login calls in flight at once
MaxSaves == 1       \* Profile.handleSave calls on their way to checkAuth

-----------------------------------------------------------------------------
(* AuthContext *)

Users == { [id |-> "u1", role |-> "user"], [id |-> "a1", role |-> "admin"] }

\* A token as JavaScript sees it: "" is falsy, like a missing one.
Tokens == {"t1"}
MaybeTokens == Tokens \cup {""}

NoSession == [kind |-> "none"]
Corrupt == [kind |-> "corrupt"]                \* JSON.parse throws on it
Session(l, u, t) == [kind |-> "session", loggedIn |-> l, user |-> u, token |-> t]
Sessions == { Session(l, u, t) : l \in BOOLEAN, u \in Users \cup {Null}, t \in MaybeTokens }

\* session?.loggedIn && session?.user && session?.token
SessionUsable(s) == s.loggedIn /\ s.user # Null /\ s.token # ""

isAuthenticated == user # Null
isAdmin == user # Null /\ user.role = "admin"

FreeCheckId == CHOOSE i \in 1..(MaxChecks + 1) : \A c \in verifying : c.id # i

\* checkAuth up to its await: the branches that finish without a request, and the
\* one that issues POST /auth/verify.
CheckAuthSync ==
    IF storage = NoSession
    THEN /\ isLoading' = FALSE
         /\ UNCHANGED <<storage, user, verifying>>
    ELSE IF storage = Corrupt \/ ~SessionUsable(storage)
    THEN /\ storage' = NoSession
         /\ user' = Null
         /\ isLoading' = FALSE
         /\ UNCHANGED verifying
    ELSE /\ verifying' = verifying \cup {[id |-> FreeCheckId, session |-> storage]}
         /\ UNCHANGED <<storage, user, isLoading>>

\* useEffect(() => { checkAuth() }, [])
MountCheckAuth ==
    /\ ~mounted
    /\ mounted' = TRUE
    /\ CheckAuthSync
    /\ UNCHANGED <<loginPending, loginResult, loginData, pendingSaves, loginOk,
                   verifiedOk, loggedOut>>
    /\ UNCHANGED nonAuth

\* Profile.handleSave is started by a logged-in user; it awaits updateProfile and
\* fetchProfile before it calls checkAuth.
ProfileHandleSave ==
    /\ mounted
    /\ user # Null
    /\ pendingSaves < MaxSaves
    /\ pendingSaves' = pendingSaves + 1
    /\ UNCHANGED <<storage, user, isLoading, mounted, verifying, loginPending,
                   loginResult, loginData, loginOk, verifiedOk, loggedOut>>
    /\ UNCHANGED nonAuth

ProfileCheckAuth ==
    /\ pendingSaves > 0
    /\ Cardinality(verifying) < MaxChecks
    /\ pendingSaves' = pendingSaves - 1
    /\ CheckAuthSync
    /\ UNCHANGED <<mounted, loginPending, loginResult, loginData, loginOk,
                   verifiedOk, loggedOut>>
    /\ UNCHANGED nonAuth

\* What the verify request can come to: response.ok with status 'success',
\* response.ok with another status, a non-OK response, or a rejection (network
\* failure, or a body response.json() cannot parse).
VerifyOutcomes == {"ok_success", "ok_other", "not_ok", "throw"}

\* The user checkAuth sets for an outcome (the stored session's user or null).
VerifyUser(session, outcome) ==
    IF outcome \in {"ok_success", "throw"} THEN session.user ELSE Null

VerifyClears(outcome) == outcome \in {"ok_other", "not_ok"}

VerifyResp(c, outcome) ==
    /\ c \in verifying
    /\ verifying' = verifying \ {c}
    /\ user' = VerifyUser(c.session, outcome)
    /\ storage' = IF VerifyClears(outcome) THEN NoSession ELSE storage
    /\ isLoading' = FALSE
    /\ verifiedOk' = (verifiedOk \/ outcome = "ok_success")
    /\ UNCHANGED loggedOut
    /\ UNCHANGED <<mounted, loginPending, loginResult, loginData, pendingSaves, loginOk>>
    /\ UNCHANGED nonAuth

\* The body of the login response (data), or a rejection of fetch / response.json().
LoginData == [status : {"success", "error"}, user : Users \cup {Null}, token : MaybeTokens]
LoginThrow == [status |-> "throw", user |-> Null, token |-> ""]
LoginOutcomes == LoginData \cup {LoginThrow}

LoginStart ==
    /\ mounted
    /\ loginPending < MaxLogins
    /\ loginPending' = loginPending + 1
    /\ UNCHANGED <<storage, user, isLoading, mounted, verifying, loginResult,
                   loginData, pendingSaves, loginOk, verifiedOk, loggedOut>>
    /\ UNCHANGED nonAuth

\* A login that takes the status alone for success.
LoginAcceptedNoToken(data) ==
    data.status = "success" /\ data.user # Null

\* data.status === "success" && data.user && data.token
LoginAccepted(data) ==
    /\ data # LoginThrow
    /\ data.status = "success" /\ data.user # Null /\ data.token # ""

LoginResp(data) ==
    /\ loginPending > 0
    /\ loginPending' = loginPending - 1
    /\ loginData' = data
    /\ IF LoginAccepted(data)
       THEN /\ storage' = Session(TRUE, data.user, data.token)
            /\ user' = data.user
            /\ loginResult' = "true"
            /\ loginOk' = TRUE
            /\ loggedOut' = FALSE
       ELSE /\ loginResult' = "false"
            /\ UNCHANGED <<storage, user, loginOk, loggedOut>>
    /\ UNCHANGED <<isLoading, mounted, verifying, pendingSaves, verifiedOk>>
    /\ UNCHANGED nonAuth

Logout ==
    /\ mounted
    /\ user # Null
    /\ storage' = NoSession
    /\ user' = Null
    /\ loggedOut' = TRUE
    /\ UNCHANGED <<isLoading, mounted, verifying, loginPending, loginResult,
                   loginData, pendingSaves, loginOk, verifiedOk>>
    /\ UNCHANGED nonAuth

\* The admin routes of App.
AdminPaths == {"/admin/dashboard", "/admin/users", "/admin/content"}

\* An AdminRoute that does not wait for the session check.
AdminRouteNoSpinner(path) ==
    IF ~isAuthenticated THEN "navigate:/login"
    ELSE IF ~isAdmin THEN "navigate:/dashboard"
    ELSE "children:" \o path

\* AdminRoute's render.

AdminRoute(path) ==
    IF isLoading THEN "spinner"
    ELSE IF ~isAuthenticated THEN "navigate:/login"
    ELSE IF ~isAdmin THEN "navigate:/dashboard"
    ELSE "children:" \o path

\* The authentication context of a page on which user u is logged in.
AuthLoggedIn(u) ==
    /\ storage = Session(TRUE, u, "t1")
    /\ user = u
    /\ isLoading = FALSE
    /\ mounted = TRUE
    /\ verifying = {}
    /\ loginPending = 0
    /\ loginResult = "true"
    /\ loginData = [status |-> "success", user |-> u, token |-> "t1"]
    /\ pendingSaves = 0
    /\ loginOk = TRUE
    /\ verifiedOk = FALSE
    /\ loggedOut = FALSE

InitAuth ==
    /\ storage \in {NoSession, Corrupt} \cup Sessions
    /\ user = Null
    /\ isLoading = TRUE
    /\ mounted = FALSE
    /\ verifying = {}
    /\ loginPending = 0
    /\ loginResult = "none"
    /\ loginData = LoginThrow
    /\ pendingSaves = 0
    /\ loginOk = FALSE
    /\ verifiedOk = FALSE
    /\ loggedOut = FALSE

NextAuth ==
    \/ MountCheckAuth
    \/ ProfileHandleSave
    \/ ProfileCheckAuth
    \/ \E c \in verifying, o \in VerifyOutcomes : VerifyResp(c, o)
    \/ LoginStart
    \/ \E d \in LoginOutcomes : LoginResp(d)
    \/ Logout

-----------------------------------------------------------------------------
(* AdminContent: the report listing and the deletion of a report *)

MaxFetches == 2     \* getAllReports requests in flight at once
MaxDeletes == 1     \* deleteReport requests in flight at once

\* A letter of a file name or e-mail address, and String.toLowerCase on it.
Lower(ch) == IF ch = "A" THEN "a" ELSE ch

\* Report rows (id, file_name, user_email); names are one letter long.
Reports == { [id |-> "r1", file_name |-> "A", user_email |-> "x"],
             [id |-> "r2", file_name |-> "b", user_email |-> "a"] }
ReportIds == { r.id : r \in Reports }
NoReport == [id |-> "null", file_name |-> "", user_email |-> ""]

Queries == {"", "a", "B"}

\* s.toLowerCase().includes(q.toLowerCase()) for a one-letter s and a q of at most one letter
Includes(str, q) == q = "" \/ Lower(str) = Lower(q)

\* filterReports, as a function of the reports and the query it reads
FilterReports(rs, q) ==
    IF q # ""
    THEN { r \in rs : Includes(r.file_name, q) \/ Includes(r.user_email, q) }
    ELSE rs

FreeFetchId == CHOOSE i \in 1..(MaxFetches + 1) : \A f \in fetches : f.id # i

\* fetchReports up to its await.  The filters it sends (result, dates) only narrow
\* the answer on the server and are left out.
FetchReportsSync ==
    IF user = Null
    THEN UNCHANGED <<contentLoading, fetches>>
    ELSE /\ contentLoading' = TRUE
         /\ fetches' = fetches \cup
                {[id |-> FreeFetchId, phase |-> "sent", status |-> "", body |-> {}]}

\* The mount/filter effect or the Refresh button runs fetchReports.
FetchReports ==
    /\ Cardinality(fetches) < MaxFetches
    /\ FetchReportsSync
    /\ UNCHANGED <<serverReports, reports, filteredReports, searchQuery, selectedReport,
                   showDeleteDialog, isDeleting, deletes, deletedOk>>
    /\ UNCHANGED nonContent

\* The backend answers GET /admin/reports with the rows it holds, or the request
\* fails (AdminApiService.getAllReports then returns status 'error').
ServerAnswersFetch(f, ok) ==
    /\ f \in fetches /\ f.phase = "sent"
    /\ fetches' = (fetches \ {f}) \cup
          {[f EXCEPT !.phase = "answered",
                     !.status = IF ok THEN "success" ELSE "error",
                     !.body = IF ok THEN { r \in Reports : r.id \in serverReports } ELSE {}]}
    /\ UNCHANGED <<serverReports, reports, filteredReports, contentLoading, searchQuery,
                   selectedReport, showDeleteDialog, isDeleting, deletes, deletedOk>>
    /\ UNCHANGED nonContent

\* The reports fetchReports leaves in state when a response has arrived.
ReportsAfterFetch(f) ==
    IF f.status = "success" THEN f.body ELSE reports

\* fetchReports after its await, and the effect that runs filterReports when
\* reports has changed.
FetchResp(f) ==
    /\ f \in fetches /\ f.phase = "answered"
    /\ fetches' = fetches \ {f}
    /\ reports' = ReportsAfterFetch(f)
    /\ filteredReports' = FilterReports(reports', searchQuery)
    /\ contentLoading' = FALSE
    /\ UNCHANGED <<serverReports, searchQuery, selectedReport, showDeleteDialog,
                   isDeleting, deletes, deletedOk>>
    /\ UNCHANGED nonContent

\* Typing in the search box; the effect runs filterReports.
SetSearchQuery(q) ==
    /\ q # searchQuery
    /\ searchQuery' = q
    /\ filteredReports' = FilterReports(reports, q)
    /\ UNCHANGED <<serverReports, reports, contentLoading, selectedReport,
                   showDeleteDialog, isDeleting, fetches, deletes, deletedOk>>
    /\ UNCHANGED nonContent

\* The Delete item of a listed report's menu.
OpenDeleteDialog(r) ==
    /\ r \in filteredReports
    /\ ~showDeleteDialog
    /\ selectedReport' = r
    /\ showDeleteDialog' = TRUE
    /\ UNCHANGED <<serverReports, reports, filteredReports, contentLoading, searchQuery,
                   isDeleting, fetches, deletes, deletedOk>>
    /\ UNCHANGED nonContent

\* handleDeleteReport up to its await.
HandleDeleteReport ==
    /\ showDeleteDialog
    /\ Cardinality(deletes) < MaxDeletes
    /\ IF user = Null \/ selectedReport = NoReport
       THEN UNCHANGED <<isDeleting, showDeleteDialog, deletes>>
       ELSE /\ isDeleting' = TRUE
            /\ showDeleteDialog' = FALSE
            /\ deletes' = deletes \cup
                  {[report |-> selectedReport.id, phase |-> "sent", status |-> ""]}
    /\ UNCHANGED <<serverReports, reports, filteredReports, contentLoading, searchQuery,
                   selectedReport, fetches, deletedOk>>
    /\ UNCHANGED nonContent

\* The backend answers DELETE /admin/reports/:id: the row is removed, or the
\* request fails and the row stays.
ServerAnswersDelete(d, ok) ==
    /\ d \in deletes /\ d.phase = "sent"
    /\ serverReports' = IF ok THEN serverReports \ {d.report} ELSE serverReports
    /\ deletes' = (deletes \ {d}) \cup
          {[d EXCEPT !.phase = "answered", !.status = IF ok THEN "success" ELSE "error"]}
    /\ UNCHANGED <<reports, filteredReports, contentLoading, searchQuery, selectedReport,
                   showDeleteDialog, isDeleting, fetches, deletedOk>>
    /\ UNCHANGED nonContent

\* handleDeleteReport after its await: on success it starts fetchReports and
\* clears the selection.
DeleteResp(d) ==
    /\ d \in deletes /\ d.phase = "answered"
    /\ Cardinality(fetches) < MaxFetches
    /\ deletes' = deletes \ {d}
    /\ IF d.status = "success"
       THEN /\ FetchReportsSync
            /\ selectedReport' = NoReport
            /\ deletedOk' = deletedOk \cup {d.report}
       ELSE UNCHANGED <<contentLoading, fetches, selectedReport, deletedOk>>
    /\ isDeleting' = FALSE
    /\ UNCHANGED <<serverReports, reports, filteredReports, searchQuery, showDeleteDialog>>
    /\ UNCHANGED nonContent

InitContent ==
    /\ serverReports = ReportIds
    /\ reports = {}
    /\ filteredReports = {}
    /\ contentLoading = TRUE
    /\ searchQuery = ""
    /\ selectedReport = NoReport
    /\ showDeleteDialog = FALSE
    /\ isDeleting = FALSE
    /\ fetches = {}
    /\ deletes = {}
    /\ deletedOk = {}

NextContent ==
    \/ FetchReports
    \/ \E f \in fetches, ok \in BOOLEAN : ServerAnswersFetch(f, ok)
    \/ \E f \in fetches : FetchResp(f)
    \/ \E q \in Queries : SetSearchQuery(q)
    \/ \E r \in Reports : OpenDeleteDialog(r)
    \/ HandleDeleteReport
    \/ \E d \in deletes, ok \in BOOLEAN : ServerAnswersDelete(d, ok)
    \/ \E d \in deletes : DeleteResp(d)

-----------------------------------------------------------------------------
(* The polling effects of AppHeader, Dashboard and Forum *)

MaxTimerId == 4           \* timer handles the model tells apart
MaxHandleDeletes == 2     \* calls of Forum.handleDelete that send a request
MaxGetPosts == 3          \* getPosts requests the Forum issues
MaxNotificationCalls == 1 \* getNotifications requests in flight at a time
MaxMarkCalls == 2         \* markNotificationRead requests in flight at a time

HeaderPollMs == 30000
DashboardPollMs == 30000
ForumPollMs == 10000

Components == {"AppHeader", "Dashboard", "Forum"}
UserComponents == {"AppHeader", "Dashboard"}       \* their effect depends on user

PollMs(c) ==
    IF c = "AppHeader" THEN HeaderPollMs
    ELSE IF c = "Dashboard" THEN DashboardPollMs
    ELSE ForumPollMs

HasId(u) == u # Null             \* user?.id
Authenticated(u) == u # Null     \* isAuthenticated = !!user

\* The condition under which the effect fetches and starts its timer:
\* user?.id && isAuthenticated (AppHeader), user?.id (Dashboard), none (Forum).
EffectGuard(c, u) ==
    IF c = "AppHeader" THEN HasId(u) /\ Authenticated(u)
    ELSE IF c = "Dashboard" THEN HasId(u)
    ELSE TRUE

\* setInterval returns a handle no active timer has.
FreeTimerId(ts) == CHOOSE i \in 1..MaxTimerId : \A t \in ts : t.id # i

\* A cleanup that clears nothing.
CleanupKeepsTimer(c, ts) == ts

\* The cleanup the last effect run of c returned: clearInterval(interval), or no
\* cleanup at all when the effect started no timer.
Cleanup(c, ts) == { t \in ts : t.id # effectTimer[c] }

\* The body of the effect of c, run with user u while the timers ts are active:
\* the timers afterwards.
EffectTimers(c, u, ts) ==
    IF EffectGuard(c, u)
    THEN ts \cup {[comp |-> c, id |-> FreeTimerId(ts), period |-> PollMs(c)]}
    ELSE ts

\* A render after which the effect of c runs again (its dependencies changed) or
\* for the first time: the cleanup of the previous run, then the body.
Rerun(c, u, ts) == EffectTimers(c, u, Cleanup(c, ts))

RerunTimerId(c, u, ts) ==
    IF EffectGuard(c, u) THEN FreeTimerId(Cleanup(c, ts)) ELSE 0

EffectStep(c, u) == IF EffectGuard(c, u) THEN "effect" ELSE "effect_skipped"

Quiet == [c \in Components |-> 0]
Idle == [c \in Components |-> "none"]

\* The first render of c: its effect runs.
MountEffect(c) ==
    /\ ~compMounted[c]
    /\ Cardinality(timers) < MaxTimerId
    /\ compMounted' = [compMounted EXCEPT ![c] = TRUE]
    /\ timers' = EffectTimers(c, user, timers)
    /\ effectTimer' = [effectTimer EXCEPT
                          ![c] = IF EffectGuard(c, user) THEN FreeTimerId(timers) ELSE 0]
    /\ pollStep' = [Idle EXCEPT ![c] = EffectStep(c, user)]
    /\ pollFetched' = [Quiet EXCEPT ![c] = IF EffectGuard(c, user) THEN 1 ELSE 0]
    /\ UNCHANGED <<forumSearch, topicFilter>>

\* A page with the component is opened.
Mount(c) ==
    /\ MountEffect(c)
    /\ UNCHANGED authVars
    /\ UNCHANGED nonPoll

\* The page is left: React runs the cleanup of the last effect run.
Unmount(c) ==
    /\ compMounted[c]
    /\ compMounted' = [compMounted EXCEPT ![c] = FALSE]
    /\ timers' = Cleanup(c, timers)
    /\ effectTimer' = [effectTimer EXCEPT ![c] = 0]
    /\ pollStep' = [Idle EXCEPT ![c] = "cleanup"]
    /\ pollFetched' = Quiet
    /\ UNCHANGED <<forumSearch, topicFilter>>
    /\ UNCHANGED authVars
    /\ UNCHANGED nonPoll

\* AuthContext sets user (login, logout, checkAuth): the effects of the mounted
\* components that depend on user run again.  A user object set by login or
\* checkAuth is a new object, also for the same account.
SetUser(u) ==
    /\ ~(u = Null /\ user = Null)
    /\ Cardinality(timers) < MaxTimerId - 1
    /\ user' = u
    /\ storage' = IF u = Null THEN NoSession ELSE Session(TRUE, u, "t1")
    /\ LET again == { c \in UserComponents : compMounted[c] }
           ts1 == IF "AppHeader" \in again THEN Rerun("AppHeader", u, timers) ELSE timers
           ts2 == IF "Dashboard" \in again THEN Rerun("Dashboard", u, ts1) ELSE ts1
       IN /\ timers' = ts2
          /\ effectTimer' = [c \in Components |->
                IF c = "AppHeader" /\ c \in again THEN RerunTimerId(c, u, timers)
                ELSE IF c = "Dashboard" /\ c \in again THEN RerunTimerId(c, u, ts1)
                ELSE effectTimer[c]]
          /\ pollStep' = [c \in Components |->
                IF c \in again THEN EffectStep(c, u) ELSE "none"]
          /\ pollFetched' = [c \in Components |->
                IF c \in again /\ EffectGuard(c, u) THEN 1 ELSE 0]
    /\ UNCHANGED <<compMounted, forumSearch, topicFilter>>
    /\ UNCHANGED <<isLoading, mounted, verifying, loginPending, loginResult, loginData,
                   pendingSaves, loginOk, verifiedOk, loggedOut>>
    /\ UNCHANGED nonPoll

ForumQueries == {"", "deepfake"}
ForumTopicFilters == {"", "General"}

\* setSearchQuery / setTopicFilter and the effect that runs again after them
ForumFilterEffect(q, t) ==
    /\ compMounted["Forum"]
    /\ <<q, t>> # <<forumSearch, topicFilter>>
    /\ forumSearch' = q
    /\ topicFilter' = t
    /\ timers' = Rerun("Forum", user, timers)
    /\ effectTimer' = [effectTimer EXCEPT !["Forum"] = RerunTimerId("Forum", user, timers)]
    /\ pollStep' = [Idle EXCEPT !["Forum"] = EffectStep("Forum", user)]
    /\ pollFetched' = [Quiet EXCEPT !["Forum"] = 1]
    /\ UNCHANGED compMounted

\* Typing in Forum's search box or choosing a topic: the effect runs again.
ForumSetFilter(q, t) ==
    /\ ForumFilterEffect(q, t)
    /\ UNCHANGED authVars
    /\ UNCHANGED nonPoll

\* The callback of an interval timer
TimerCallback(t) ==
    /\ t \in timers
    /\ pollStep' = [Idle EXCEPT ![t.comp] = "tick"]
    /\ pollFetched' = [Quiet EXCEPT ![t.comp] = 1]
    /\ UNCHANGED <<compMounted, timers, effectTimer, forumSearch, topicFilter>>

\* An interval elapses: the timer's callback fetches.
TimerFires(t) ==
    /\ TimerCallback(t)
    /\ UNCHANGED authVars
    /\ UNCHANGED nonPoll

InitPoll ==
    /\ compMounted = [c \in Components |-> FALSE]
    /\ timers = {}
    /\ effectTimer = [c \in Components |-> 0]
    /\ pollStep = Idle
    /\ pollFetched = Quiet
    /\ forumSearch = ""
    /\ topicFilter = ""

NextPoll ==
    \/ \E c \in Components : Mount(c)
    \/ \E c \in Components : Unmount(c)
    \/ \E u \in Users \cup {Null} : SetUser(u)
    \/ \E q \in ForumQueries, t \in ForumTopicFilters : ForumSetFilter(q, t)
    \/ \E t \in timers : TimerFires(t)

-----------------------------------------------------------------------------
(* The fetch wrappers *)

\* The four shapes the service methods have:
\*   "json_error": on a non-OK response, read the error body as JSON (falling back
\*                 to {}) and throw Error(errorData.message || `HTTP error! ...`)
\*   "plain":      on a non-OK response throw Error(`HTTP error! status: ...`)
\*   "text_error": as plain, after reading the error body as text (getPosts)
\*   "rebuild":    as plain, and a new object is built from the parsed body
\*                 (getDashboard)
M(svc, name, shape, fallback) ==
    [service |-> svc, method |-> name, shape |-> shape, fallback |-> fallback]

ApiMethods == {
    M("AdminApiService", "resetUserData", "json_error", "Failed to reset user data"),
    M("AdminApiService", "getAllUsers", "json_error", "Failed to fetch users"),
    M("AdminApiService", "getUserDetails", "json_error", "Failed to fetch user details"),
    M("AdminApiService", "resetUserDataSingle", "json_error", "Failed to reset user data"),
    M("AdminApiService", "deleteUser", "json_error", "Failed to delete user"),
    M("AdminApiService", "getAllReports", "json_error", "Failed to fetch reports"),
    M("AdminApiService", "deleteReport", "json_error", "Failed to delete report"),
    M("SupportApiService", "createExpertRequest", "json_error", "Failed to create expert request"),
    M("SupportApiService", "createComplaint", "json_error", "Failed to create complaint"),
    M("SupportApiService", "trackComplaint", "json_error", "Failed to track complaint"),
    M("SupportApiService", "subscribeNewsletter", "json_error", "Failed to subscribe"),
    M("SupportApiService", "getDailyTips", "json_error", "Failed to fetch daily tips"),
    M("AnalysesApiService", "createAnalysis", "json_error", "Failed to record analysis"),
    M("BlogsApiService", "getAllBlogs", "json_error", "Failed to fetch blogs"),
    M("BlogsApiService", "getBlogById", "json_error", "Failed to fetch blog"),
    M("ForumApiService", "getPosts", "text_error",
      "Failed to connect to server. Please ensure the backend is running."),
    M("ForumApiService", "createPost", "plain", "Unknown error occurred"),
    M("ForumApiService", "likePost", "plain", "Unknown error occurred"),
    M("ForumApiService", "deletePost", "plain", "Unknown error occurred"),
    M("ForumApiService", "getComments", "plain", "Unknown error occurred"),
    M("ForumApiService", "createComment", "plain", "Unknown error occurred"),
    M("ForumApiService", "deleteComment", "plain", "Unknown error occurred"),
    M("DeepfakeApiService", "healthCheck", "plain", "Unknown error occurred"),
    M("DeepfakeApiService", "predictVideo", "plain", "Prediction failed"),
    M("DeepfakeApiService", "trainModel", "plain", "Unknown error occurred"),
    M("DeepfakeApiService", "loadModel", "plain", "Unknown error occurred"),
    M("DeepfakeApiService", "getModelInfo", "plain", "Unknown error occurred"),
    M("DeepfakeApiService", "evaluateModel", "plain", "Unknown error occurred"),
    M("ReportsApiService", "getUserReports", "plain", "Failed to fetch reports"),
    M("ReportsApiService", "getAllReports", "plain", "Failed to fetch reports"),
    M("ReportsApiService", "createReport", "json_error", "Failed to save report"),
    M("HistoryApiService", "getHistory", "plain", "Failed to fetch history"),
    M("HistoryApiService", "createHistory", "json_error", "Failed to record history"),
    M("ProfileApiService", "getProfile", "json_error", "Failed to fetch profile"),
    M("ProfileApiService", "updateProfile", "json_error", "Failed to update profile"),
    M("DashboardApiService", "getDashboard", "rebuild", "Failed to fetch dashboard data"),
    M("DashboardApiService", "getNotifications", "plain", "Failed to fetch notifications"),
    M("DashboardApiService", "markNotificationRead", "json_error",
      "Failed to update notification") }

NoMethod == M("", "", "", "")

\* A field that is missing from an object
Undefined == "undefined"

\* Response bodies: one that JSON.parse rejects, one whose stream breaks while it
\* is read, the JSON value null, and objects with or without status and message.
JsonObject(st, msg) == [json |-> "object", status |-> st, message |-> msg]
JsonNull == [json |-> "null", status |-> Undefined, message |-> Undefined]
Unparsable == [json |-> "unparsable", status |-> Undefined, message |-> Undefined]
Unreadable == [json |-> "unreadable", status |-> Undefined, message |-> Undefined]
Bodies == {Unparsable, Unreadable, JsonNull} \cup
          { JsonObject(st, msg) : st \in {"success", "error", Undefined},
                                  msg \in {Undefined, "", "Not allowed"} }

HttpOk == {"200"}
HttpNotOk == {"404", "500"}

NetworkFailure == [kind |-> "network", ok |-> FALSE, code |-> "", body |-> Unreadable]
Response(code, body) ==
    [kind |-> "response", ok |-> code \in HttpOk, code |-> code, body |-> body]
ApiOutcomes == {NetworkFailure} \cup
               { Response(code, b) : code \in HttpOk \cup HttpNotOk, b \in Bodies }
NoOutcome == [kind |-> "none", ok |-> FALSE, code |-> "", body |-> Unreadable]

\* How a promise settles
Resolved(v) == [settled |-> "resolved", value |-> v]
Rejected(e) == [settled |-> "rejected", value |-> JsonObject(Undefined, e.message)]
Pending == [settled |-> "pending", value |-> JsonNull]

\* Thrown values
Error(msg) == [instanceofError |-> TRUE, message |-> msg]
FetchTypeError == Error("Failed to fetch")
JsonSyntaxError == Error("Unexpected token < in JSON")
NullTypeError == Error("Cannot read properties of null")
HttpError(code) == Error("HTTP error! status: " \o code)

\* x || y on strings
OrElse(x, y) == IF x \in {Undefined, ""} THEN y ELSE x

\* A method without its catch block.
CaughtRethrows(m, e) == Rejected(e)

\* catch (error) { return { status: 'error', message: ... } }
Caught(m, e) ==
    Resolved(JsonObject("error", IF e.instanceofError THEN e.message ELSE m.fallback))

\* await response.json(): the value, or the error it rejects with
JsonThrows(body) == body \in {Unparsable, Unreadable}
JsonError(body) == IF body = Unparsable THEN JsonSyntaxError ELSE FetchTypeError

\* The body of the try block after fetch has resolved with a response.
AfterResponse(m, r) ==
    IF ~r.ok
    THEN IF m.shape = "json_error"
         THEN \* errorData = await response.json().catch(() => ({}))
              LET errorData == IF JsonThrows(r.body)
                               THEN JsonObject(Undefined, Undefined) ELSE r.body
              IN IF errorData = JsonNull
                 THEN Caught(m, NullTypeError)
                 ELSE Caught(m, Error(OrElse(errorData.message,
                                             "HTTP error! status: " \o r.code)))
         ELSE IF m.shape = "text_error" /\ r.body = Unreadable
         THEN Caught(m, FetchTypeError)           \* await response.text() rejects
         ELSE Caught(m, HttpError(r.code))
    ELSE IF JsonThrows(r.body)
    THEN Caught(m, JsonError(r.body))
    ELSE IF m.shape = "rebuild"
    THEN IF r.body = JsonNull
         THEN Caught(m, NullTypeError)            \* data.status on null
         ELSE Resolved(JsonObject(r.body.status, r.body.message))
    ELSE Resolved(r.body)

\* What the method's promise settles to for an outcome of its request.
ServiceReturn(m, o) ==
    IF o.kind = "network" THEN Caught(m, FetchTypeError) ELSE AfterResponse(m, o)

\* A service method is called: it issues its request and awaits it.
ApiCall(m) ==
    /\ apiPhase # "fetching"
    /\ apiPhase' = "fetching"
    /\ apiMethod' = m
    /\ apiRequests' = 1
    /\ apiOutcome' = NoOutcome
    /\ apiResult' = Pending
    /\ UNCHANGED nonApi

\* fetch settles; the method runs to its return without another request.
ApiSettle(o) ==
    /\ apiPhase = "fetching"
    /\ apiPhase' = "returned"
    /\ apiOutcome' = o
    /\ apiResult' = ServiceReturn(apiMethod, o)
    /\ UNCHANGED <<apiMethod, apiRequests>>
    /\ UNCHANGED nonApi

InitApi ==
    /\ apiPhase = "idle"
    /\ apiMethod = NoMethod
    /\ apiRequests = 0
    /\ apiOutcome = NoOutcome
    /\ apiResult = Pending

NextApi ==
    \/ \E m \in ApiMethods : ApiCall(m)
    \/ \E o \in ApiOutcomes : ApiSettle(o)

-----------------------------------------------------------------------------
(* Files, and their validation on the Upload page and on the Dashboard *)

FileIds == {"a", "b"}          \* File objects, compared by identity (f.file === file)

FileTypes == {"video/mp4", "video/avi", "video/mov", "video/webm", "video/quicktime",
              "video/x-matroska", ""}
FileSizes == {500 * 1024 * 1024, 500 * 1024 * 1024 + 1}

File(id) == [id |-> id, type |-> fileInfo[id].type, size |-> fileInfo[id].size]
NoFile == [id |-> "none", type |-> "", size |-> 0]

allowedTypes == {"video/mp4", "video/avi", "video/mov", "video/webm", "video/quicktime"}
maxSize == 500 * 1024 * 1024

\* (n / 1024 / 1024).toFixed(1)
ToFixed1MB(n) ==
    LET mb == 1024 * 1024
        tenths == (n \div mb) * 10 + ((n % mb) * 20 + mb) \div (2 * mb)
    IN ToString(tenths \div 10) \o "." \o ToString(tenths % 10)

\* A validateFile that lets a file of any size through.
validateFileTypeOnly(file) ==
    IF file.type \notin allowedTypes
    THEN "File type " \o file.type \o " is not supported."
    ELSE ""

\* UploadPage.validateFile: the error message, "" for null
validateFile(file) ==
    IF file.type \notin allowedTypes
    THEN "File type " \o file.type
           \o " is not supported. Please use MP4, AVI, MOV, or WebM video files."
    ELSE IF file.size > maxSize
    THEN "File size (" \o ToFixed1MB(file.size) \o "MB) exceeds the 500MB limit."
    ELSE ""

\* The two checks of Dashboard.handleFileSelect: the toast it shows, "" for none
DashboardRejects(file) ==
    IF file.type \notin allowedTypes THEN "Invalid file type"
    ELSE IF file.size > maxSize THEN "File too large"
    ELSE ""

-----------------------------------------------------------------------------
(* The Upload page's queue *)

NoResult == "none"
Predictions == {"real", "fake"}

\* What DeepfakeApiService.predictVideo resolves to (it never rejects): the
\* server's JSON, which can be null, or the { status: 'error', message } of its catch
PredictResponses ==
    { [json |-> "object", status |-> "success", result |-> r, message |-> Undefined] :
        r \in Predictions \cup {NoResult} }
    \cup { [json |-> "object", status |-> "error", result |-> NoResult, message |-> m] :
             m \in {Undefined, "", "Model not loaded"} }
    \cup { [json |-> "null", status |-> Undefined, result |-> NoResult,
             message |-> Undefined] }

\* response.status of null throws, into analyzeVideo's outer catch
PredictThrows(r) == r.json = "null"

NoJob == [added |-> FALSE, interval |-> FALSE, phase |-> "none", owner |-> Null,
          nPredict |-> 0, nHistory |-> 0, nAnalysis |-> 0, predicted |-> "none",
          history |-> "none", toast |-> ""]

Min(x, y) == IF x < y THEN x ELSE y

Queued(id) == \E i \in 1..Len(files) : files[i].file.id = id

\* The entry handleFiles pushes for a file
NewEntry(file) ==
    LET error == validateFile(file)
    IN IF error # ""
       THEN [file |-> file, uploadProgress |-> 0, status |-> "error",
             result |-> NoResult, error |-> error]
       ELSE [file |-> file, uploadProgress |-> 0, status |-> "uploading",
             result |-> NoResult, error |-> ""]

FileLists == { <<"a">>, <<"b">>, <<"a", "b">>, <<"b", "a">> }

\* handleFiles (drop or file input), with processFile for each valid file
HandleFiles(fileList) ==
    /\ page = "upload"
    /\ \A i \in 1..Len(fileList) : ~jobs[fileList[i]].added
    /\ LET newFiles == [i \in 1..Len(fileList) |-> NewEntry(File(fileList[i]))]
           started == { newFiles[i].file.id :
                          i \in { j \in 1..Len(fileList) : newFiles[j].status # "error" } }
           listed == { fileList[i] : i \in 1..Len(fileList) }
       IN /\ files' = files \o newFiles
          /\ jobs' = [id \in FileIds |->
                IF id \in started
                THEN [jobs[id] EXCEPT !.added = TRUE, !.interval = TRUE, !.owner = user]
                ELSE IF id \in listed THEN [jobs[id] EXCEPT !.added = TRUE]
                ELSE jobs[id]]
    /\ UNCHANGED <<page, fileInfo, selectedFile, uploadProgress, uploading, analyzing,
                   predictionResult, predictionFor, picked>>
    /\ UNCHANGED nonUpload

\* A tick that moves on to the analysis one tick after the progress is full.
TickEntryLate(f) ==
    IF f.uploadProgress >= 100
    THEN [f EXCEPT !.uploadProgress = 100, !.status = "analyzing"]
    ELSE [f EXCEPT !.uploadProgress = Min(f.uploadProgress + 10, 100)]

\* The entry after a tick of a file's upload interval
TickEntry(f) ==
    LET newProgress == Min(f.uploadProgress + 10, 100)
    IN IF newProgress >= 100
       THEN [f EXCEPT !.uploadProgress = 100, !.status = "analyzing"]
       ELSE [f EXCEPT !.uploadProgress = newProgress]

\* A tick of the interval processFile started for a file; when the progress
\* reaches 100 the interval is cleared and analyzeVideo issues predictVideo.
UploadTick(id) ==
    /\ page = "upload"
    /\ jobs[id].interval
    /\ LET hit(f) == f.file.id = id /\ f.status = "uploading"
           full == \E i \in 1..Len(files) :
                      hit(files[i]) /\ TickEntry(files[i]).status = "analyzing"
       IN /\ files' = [i \in 1..Len(files) |->
                          IF hit(files[i]) THEN TickEntry(files[i]) ELSE files[i]]
          /\ jobs' = IF full
                     THEN [jobs EXCEPT ![id].interval = FALSE, ![id].phase = "predict",
                                       ![id].nPredict = @ + 1]
                     ELSE jobs
    /\ UNCHANGED <<page, fileInfo, selectedFile, uploadProgress, uploading, analyzing,
                   predictionResult, predictionFor, picked>>
    /\ UNCHANGED nonUpload

\* response.status === 'success' && response.result
PredictSucceeded(r) == ~PredictThrows(r) /\ r.status = "success" /\ r.result # NoResult

PredictOutcome(r) == IF PredictSucceeded(r) THEN "success" ELSE "failure"

\* The toast analyzeVideo shows when it does not record
AnalyzeToast(r) ==
    IF PredictThrows(r) THEN "Analysis Error"
    ELSE IF PredictSucceeded(r) THEN "Analysis Complete"
    ELSE "Analysis Failed"

\* An analyzeVideo that records without looking at the response.
RecordsAlways(r, owner) == owner # Null

\* analyzeVideo records the analysis: the prediction succeeded and
\* isAuthenticated && user?.id held when the file was added.
Records(r, owner) == PredictSucceeded(r) /\ owner # Null

\* UploadPage.analyzeVideo after await predictVideo
UploadPredictResp(id, r) ==
    /\ page = "upload"
    /\ jobs[id].phase = "predict"
    /\ files' = [i \in 1..Len(files) |->
          IF files[i].file.id # id THEN files[i]
          ELSE IF PredictSucceeded(r)
          THEN [files[i] EXCEPT !.status = "completed", !.result = r.result]
          ELSE IF PredictThrows(r)
          THEN [files[i] EXCEPT !.status = "error",
                                !.error = "Failed to connect to analysis service"]
          ELSE [files[i] EXCEPT !.status = "error",
                                !.error = OrElse(r.message, "Failed to analyze video")]]
    /\ jobs' = IF Records(r, jobs[id].owner)
               THEN [jobs EXCEPT ![id].predicted = PredictOutcome(r),
                                 ![id].phase = "history", ![id].nHistory = @ + 1]
               ELSE [jobs EXCEPT ![id].predicted = PredictOutcome(r),
                                 ![id].phase = "done", ![id].toast = AnalyzeToast(r)]
    /\ UNCHANGED <<page, fileInfo, selectedFile, uploadProgress, uploading, analyzing,
                   predictionResult, predictionFor, picked>>
    /\ UNCHANGED nonUpload

\* createHistory has resolved (with success or with error): createAnalysis is issued.
UploadHistoryResp(id, ok) ==
    /\ page = "upload"
    /\ jobs[id].phase = "history"
    /\ jobs' = [jobs EXCEPT ![id].phase = "analysis",
                            ![id].history = IF ok THEN "success" ELSE "error",
                            ![id].nAnalysis = @ + 1]
    /\ UNCHANGED <<page, fileInfo, files, selectedFile, uploadProgress, uploading,
                   analyzing, predictionResult, predictionFor, picked>>
    /\ UNCHANGED nonUpload

\* createAnalysis has resolved: the toast is shown.
UploadAnalysisResp(id, ok) ==
    /\ page = "upload"
    /\ jobs[id].phase = "analysis"
    /\ jobs' = [jobs EXCEPT ![id].phase = "done", ![id].toast = "Analysis Complete"]
    /\ UNCHANGED <<page, fileInfo, files, selectedFile, uploadProgress, uploading,
                   analyzing, predictionResult, predictionFor, picked>>
    /\ UNCHANGED nonUpload

\* s.filter(keep) on a sequence
RECURSIVE Filter(_, _)
Filter(seq, id) ==
    IF seq = <<>> THEN <<>>
    ELSE IF Head(seq).file.id # id THEN <<Head(seq)>> \o Filter(Tail(seq), id)
    ELSE Filter(Tail(seq), id)

\* UploadPage.removeFile
UploadRemoveFile(id) ==
    /\ page = "upload"
    /\ Queued(id)
    /\ files' = Filter(files, id)
    /\ UNCHANGED <<page, fileInfo, jobs, selectedFile, uploadProgress, uploading,
                   analyzing, predictionResult, predictionFor, picked>>
    /\ UNCHANGED nonUpload

-----------------------------------------------------------------------------
(* The Dashboard's quick-analysis card *)

\* handleFileSelect (file input or drop), with startUpload for a valid file
HandleFileSelect(id) ==
    /\ page = "dashboard"
    /\ ~jobs[id].added
    /\ picked' = File(id)
    /\ IF DashboardRejects(File(id)) # ""
       THEN UNCHANGED <<jobs, selectedFile, uploadProgress, uploading, predictionResult,
                        predictionFor>>
       ELSE /\ selectedFile' = File(id)
            /\ uploading' = TRUE
            /\ uploadProgress' = 0
            /\ predictionResult' = NoResult
            /\ predictionFor' = "none"
            /\ jobs' = [jobs EXCEPT ![id].added = TRUE, ![id].interval = TRUE,
                                    ![id].owner = user]
    /\ UNCHANGED <<page, fileInfo, files, analyzing>>
    /\ UNCHANGED nonUpload

\* A tick of the interval startUpload started for a file; at 100 the interval is
\* cleared and analyzeVideo issues predictVideo.
DashboardTick(id) ==
    /\ page = "dashboard"
    /\ jobs[id].interval
    /\ IF uploadProgress >= 100
       THEN /\ jobs' = [jobs EXCEPT ![id].interval = FALSE, ![id].phase = "predict",
                                    ![id].nPredict = @ + 1]
            /\ uploading' = FALSE
            /\ analyzing' = TRUE
            /\ uploadProgress' = 100
       ELSE /\ uploadProgress' = uploadProgress + 10
            /\ UNCHANGED <<jobs, uploading, analyzing>>
    /\ UNCHANGED <<page, fileInfo, files, selectedFile, predictionResult, predictionFor,
                   picked>>
    /\ UNCHANGED nonUpload

\* Dashboard.analyzeVideo after await predictVideo
DashboardPredictResp(id, r) ==
    /\ page = "dashboard"
    /\ jobs[id].phase = "predict"
    /\ IF PredictSucceeded(r)
       THEN /\ predictionResult' = r.result
            /\ predictionFor' = id
       ELSE UNCHANGED <<predictionResult, predictionFor>>
    /\ IF PredictSucceeded(r) /\ jobs[id].owner # Null
       THEN /\ jobs' = [jobs EXCEPT ![id].predicted = PredictOutcome(r),
                                    ![id].phase = "analysis", ![id].nAnalysis = @ + 1]
            /\ UNCHANGED analyzing
       ELSE /\ jobs' = [jobs EXCEPT ![id].predicted = PredictOutcome(r),
                                    ![id].phase = "done", ![id].toast = AnalyzeToast(r)]
            /\ analyzing' = FALSE
    /\ UNCHANGED <<page, fileInfo, files, selectedFile, uploadProgress, uploading, picked>>
    /\ UNCHANGED nonUpload

\* createAnalysis has resolved: the toast, then finally setAnalyzing(false).
DashboardAnalysisResp(id, ok) ==
    /\ page = "dashboard"
    /\ jobs[id].phase = "analysis"
    /\ jobs' = [jobs EXCEPT ![id].phase = "done", ![id].toast = "Analysis Complete"]
    /\ analyzing' = FALSE
    /\ UNCHANGED <<page, fileInfo, files, selectedFile, uploadProgress, uploading,
                   predictionResult, predictionFor, picked>>
    /\ UNCHANGED nonUpload

\* Dashboard.removeFile
DashboardRemoveFile ==
    /\ page = "dashboard"
    /\ selectedFile # NoFile
    /\ selectedFile' = NoFile
    /\ uploadProgress' = 0
    /\ predictionResult' = NoResult
    /\ predictionFor' = "none"
    /\ UNCHANGED <<page, fileInfo, jobs, files, uploading, analyzing, picked>>
    /\ UNCHANGED nonUpload

InitUpload ==
    /\ page \in {"upload", "dashboard"}
    /\ fileInfo \in [FileIds -> [type : FileTypes, size : FileSizes]]
    /\ jobs = [id \in FileIds |-> NoJob]
    /\ files = <<>>
    /\ selectedFile = NoFile
    /\ uploadProgress = 0
    /\ uploading = FALSE
    /\ analyzing = FALSE
    /\ predictionResult = NoResult
    /\ predictionFor = "none"
    /\ picked = NoFile

\* No page with uploads is open.
NoUpload ==
    /\ page = "none"
    /\ fileInfo = [id \in FileIds |-> [type |-> "", size |-> 0]]
    /\ jobs = [id \in FileIds |-> NoJob]
    /\ files = <<>>
    /\ selectedFile = NoFile
    /\ uploadProgress = 0
    /\ uploading = FALSE
    /\ analyzing = FALSE
    /\ predictionResult = NoResult
    /\ predictionFor = "none"
    /\ picked = NoFile

NextUpload ==
    \/ \E fl \in FileLists : HandleFiles(fl)
    \/ \E id \in FileIds : UploadTick(id)
    \/ \E id \in FileIds, r \in PredictResponses : UploadPredictResp(id, r)
    \/ \E id \in FileIds, ok \in BOOLEAN : UploadHistoryResp(id, ok)
    \/ \E id \in FileIds, ok \in BOOLEAN : UploadAnalysisResp(id, ok)
    \/ \E id \in FileIds : UploadRemoveFile(id)
    \/ \E id \in FileIds : HandleFileSelect(id)
    \/ \E id \in FileIds : DashboardTick(id)
    \/ \E id \in FileIds, r \in PredictResponses : DashboardPredictResp(id, r)
    \/ \E id \in FileIds, ok \in BOOLEAN : DashboardAnalysisResp(id, ok)
    \/ DashboardRemoveFile

-----------------------------------------------------------------------------
(* The Forum page: deleting a post or a comment *)

\* The posts and comments the server can hand out
ForumPosts == { [id |-> "p1", user_id |-> "u1"], [id |-> "p2", user_id |-> "u2"] }
ForumComments == { [id |-> "c1", post_id |-> "p1", user_id |-> "u1"],
                   [id |-> "c2", post_id |-> "p1", user_id |-> "u2"] }
PostIds == { p.id : p \in ForumPosts }

CommentsOf(postId) == { c \in ForumComments : c.post_id = postId }

\* comments[postId]: undefined until the post's comments have been fetched
NotLoaded == [loaded |-> FALSE, list |-> {}]
Loaded(cs) == [loaded |-> TRUE, list |-> cs]

ClosedDialog == [open |-> FALSE, type |-> "post", id |-> ""]

\* user?.id
UserId == IF user = Null THEN Undefined ELSE user.id

\* A page that offers the delete button on everything.
DeleteButtonOnAll(item) == TRUE

\* (isAdmin || post.user_id === user?.id), and the same for a comment
DeleteButton(item) == isAdmin \/ item.user_id = UserId

\* What the Forum renders with a delete button next to it
Deletable(type) ==
    IF type = "post"
    THEN { p \in posts : DeleteButton(p) }
    ELSE { c \in UNION { comments[p.id].list : p \in posts } : DeleteButton(c) }

\* getPosts has answered a fetchPosts of the polling effect with success.
ForumPostsLoaded(ps) ==
    /\ ps # posts
    /\ posts' = ps
    /\ UNCHANGED <<comments, deleteDialog, handleDeletes, deleteRequests>>
    /\ UNCHANGED nonForum

\* toggleComments on a post whose comments are not loaded, and getComments'
\* answer with success
ForumCommentsLoaded(postId, cs) ==
    /\ \E p \in posts : p.id = postId
    /\ ~comments[postId].loaded
    /\ cs \subseteq CommentsOf(postId)
    /\ comments' = [comments EXCEPT ![postId] = Loaded(cs)]
    /\ UNCHANGED <<posts, deleteDialog, handleDeletes, deleteRequests>>
    /\ UNCHANGED nonForum

\* onClick of a delete button
ForumOpenDialog(type, item) ==
    /\ item \in Deletable(type)
    /\ deleteDialog' = [open |-> TRUE, type |-> type, id |-> item.id]
    /\ UNCHANGED <<posts, comments, handleDeletes, deleteRequests>>
    /\ UNCHANGED nonForum

\* onOpenChange(false) of the dialog: Cancel, Escape, or the click on Delete
ForumDialogOpenChange(open) ==
    /\ deleteDialog.open
    /\ deleteDialog' = [deleteDialog EXCEPT !.open = open]
    /\ UNCHANGED <<posts, comments, handleDeletes, deleteRequests>>
    /\ UNCHANGED nonForum

\* Object.keys(comments).find(postId => comments[postId].some(c => c.id === id))
PostOfComment(id) ==
    LET found == { postId \in PostIds : \E c \in comments[postId].list : c.id = id }
    IN IF found = {} THEN Undefined ELSE CHOOSE postId \in found : TRUE

\* handleDelete up to its first await (the dialog's Delete button)
ForumHandleDelete ==
    /\ deleteDialog.open
    /\ Cardinality(deleteRequests) < MaxHandleDeletes
    /\ IF user = Null
       THEN UNCHANGED <<handleDeletes, deleteRequests>>
       ELSE /\ handleDeletes' = handleDeletes \cup
                  {[n |-> Cardinality(deleteRequests) + 1, type |-> deleteDialog.type,
                    id |-> deleteDialog.id,
                    await |-> "delete", postId |-> PostOfComment(deleteDialog.id)]}
            /\ deleteRequests' = deleteRequests \cup
                  {[n |-> Cardinality(deleteRequests) + 1, type |-> deleteDialog.type,
                    id |-> deleteDialog.id, by |-> user, outcome |-> "pending"]}
    /\ UNCHANGED <<posts, comments, deleteDialog>>
    /\ UNCHANGED nonForum

\* What a service call of the Forum resolves to: status 'success', an error
\* object, or a null body, on which .status throws.
ForumOutcomes == {"success", "error", "null"}

\* handleDelete after await deletePost / deleteComment: on success it goes on to
\* refresh, otherwise through the toast to finally.
ForumDeleteResp(c, outcome) ==
    /\ c \in handleDeletes
    /\ c.await = "delete"
    /\ LET refresh == IF outcome # "success" THEN "none"
                      ELSE IF c.type = "post" THEN "fetchPosts"
                      ELSE IF c.postId # Undefined THEN "getComments"
                      ELSE "none"
       IN IF refresh = "none"
          THEN /\ handleDeletes' = handleDeletes \ {c}
               /\ deleteDialog' = ClosedDialog
          ELSE /\ handleDeletes' = (handleDeletes \ {c}) \cup {[c EXCEPT !.await = refresh]}
               /\ UNCHANGED deleteDialog
    /\ deleteRequests' = { IF r.n = c.n THEN [r EXCEPT !.outcome = outcome] ELSE r :
                             r \in deleteRequests }
    /\ UNCHANGED <<posts, comments>>
    /\ UNCHANGED nonForum

\* handleDelete after await fetchPosts() (which has set the posts it got)
ForumDeletePostsResp(c, outcome, ps) ==
    /\ c \in handleDeletes
    /\ c.await = "fetchPosts"
    /\ posts' = IF outcome = "success" THEN ps ELSE posts
    /\ handleDeletes' = handleDeletes \ {c}
    /\ deleteDialog' = ClosedDialog
    /\ UNCHANGED <<comments, deleteRequests>>
    /\ UNCHANGED nonForum

\* handleDelete after await getComments(postId)
ForumDeleteCommentsResp(c, outcome, cs) ==
    /\ c \in handleDeletes
    /\ c.await = "getComments"
    /\ cs \subseteq CommentsOf(c.postId)
    /\ comments' = IF outcome = "success"
                   THEN [comments EXCEPT ![c.postId] = Loaded(cs)]
                   ELSE comments
    /\ handleDeletes' = handleDeletes \ {c}
    /\ deleteDialog' = ClosedDialog
    /\ UNCHANGED <<posts, deleteRequests>>
    /\ UNCHANGED nonForum

HandleDeleteCalls ==
    [n : 1..MaxHandleDeletes, type : {"post", "comment"},
     id : PostIds \cup { c.id : c \in ForumComments },
     await : {"delete", "fetchPosts", "getComments"}, postId : PostIds \cup {Undefined}]

InitForum ==
    /\ posts = {}
    /\ comments = [postId \in PostIds |-> NotLoaded]
    /\ deleteDialog = ClosedDialog
    /\ handleDeletes = {}
    /\ deleteRequests = {}

NextForum ==
    \/ \E ps \in SUBSET ForumPosts : ForumPostsLoaded(ps)
    \/ \E postId \in PostIds, cs \in SUBSET ForumComments :
          ForumCommentsLoaded(postId, cs)
    \/ \E type \in {"post", "comment"}, item \in ForumPosts \cup ForumComments :
          ForumOpenDialog(type, item)
    \/ ForumDialogOpenChange(FALSE)
    \/ ForumHandleDelete
    \/ \E c \in HandleDeleteCalls, o \in ForumOutcomes : ForumDeleteResp(c, o)
    \/ \E c \in HandleDeleteCalls, o \in ForumOutcomes, ps \in SUBSET ForumPosts :
          ForumDeletePostsResp(c, o, ps)
    \/ \E c \in HandleDeleteCalls, o \in ForumOutcomes, cs \in SUBSET ForumComments :
          ForumDeleteCommentsResp(c, o, cs)

-----------------------------------------------------------------------------
(* The Profile page: saving a name and a password *)

\* Strings as sequences of characters (UTF-16 code units, as .length counts them)
AsciiLower == {"a", "b", "c", "d", "e", "f", "g", "h"}
AsciiUpper == {"A", "B", "C", "D", "E", "F", "G", "H"}
AsciiDigits == {"0", "1", "2", "3", "4", "5", "6", "7", "8", "9"}

\* /(?=.*[a-z])/.test(s) and the like: some character of s is in the class
Test(class, s) == \E i \in 1..Len(s) : s[i] \in class

MinPasswordLength == 8

\* A validatePassword without its last check.
validatePasswordNoNumber(password) ==
    IF Len(password) < MinPasswordLength
    THEN "Password must be at least 8 characters long"
    ELSE IF ~Test(AsciiLower, password)
    THEN "Password must contain at least one lowercase letter"
    ELSE IF ~Test(AsciiUpper, password)
    THEN "Password must contain at least one uppercase letter"
    ELSE ""

\* validatePassword: the error message, "" for null
validatePassword(password) ==
    IF Len(password) < MinPasswordLength
    THEN "Password must be at least 8 characters long"
    ELSE IF ~Test(AsciiLower, password)
    THEN "Password must contain at least one lowercase letter"
    ELSE IF ~Test(AsciiUpper, password)
    THEN "Password must contain at least one uppercase letter"
    ELSE IF ~Test(AsciiDigits, password)
    THEN "Password must contain at least one number"
    ELSE ""

\* What the user types into the password fields
NewPasswords ==
    { <<>>,
      <<"A", "b", "c", "d", "e", "f", "1">>,
      <<"A", "B", "C", "D", "E", "F", "G", "1">>,
      <<"a", "b", "c", "d", "e", "f", "g", "1">>,
      <<"A", "b", "c", "d", "e", "f", "g", "h">>,
      <<"A", "b", "c", "d", "e", "f", "g", "1">>,
      <<"A", "b", "c", "d", "e", "f", "g", "2">>,
      <<"#", "A", "b", "c", "d", "e", "f", "g", "1">> }
CurrentPasswords == { <<>>, <<"o", "l", "d">> }
ProfileNames == {"Ann", "Bea"}

NoProfile == [loaded |-> FALSE, name |-> ""]
Profile(n) == [loaded |-> TRUE, name |-> n]

\* The effect that keeps hasChanges
hasChanges ==
    /\ profile.loaded
    /\ \/ nameField # profile.name
       \/ Len(newPassword) > 0 \/ Len(confirmPassword) > 0 \/ Len(currentPassword) > 0

\* getProfile has answered the fetchProfile of the mount effect.
FetchProfileResp(ok) ==
    /\ user # Null
    /\ ~profile.loaded
    /\ saving = "none"
    /\ IF ok
       THEN profile' = Profile(serverName) /\ nameField' = serverName
       ELSE UNCHANGED <<profile, nameField>>
    /\ UNCHANGED <<currentPassword, newPassword, confirmPassword, isSaving, saving,
                   serverName, lastSave>>
    /\ UNCHANGED nonProfile

SetName(n) ==
    /\ profile.loaded
    /\ nameField' = n
    /\ UNCHANGED <<profile, currentPassword, newPassword, confirmPassword, isSaving,
                   saving, serverName, lastSave>>
    /\ UNCHANGED nonProfile

SetCurrentPassword(p) ==
    /\ profile.loaded
    /\ currentPassword' = p
    /\ UNCHANGED <<profile, nameField, newPassword, confirmPassword, isSaving,
                   saving, serverName, lastSave>>
    /\ UNCHANGED nonProfile

SetNewPassword(p) ==
    /\ profile.loaded
    /\ newPassword' = p
    /\ UNCHANGED <<profile, nameField, currentPassword, confirmPassword, isSaving,
                   saving, serverName, lastSave>>
    /\ UNCHANGED nonProfile

SetConfirmPassword(p) ==
    /\ profile.loaded
    /\ confirmPassword' = p
    /\ UNCHANGED <<profile, nameField, currentPassword, newPassword, isSaving,
                   saving, serverName, lastSave>>
    /\ UNCHANGED nonProfile

\* The toast handleSave returns with before it sends anything, "" for none
SaveRefused ==
    IF Len(newPassword) > 0 \/ Len(confirmPassword) > 0 \/ Len(currentPassword) > 0
    THEN IF Len(currentPassword) = 0
         THEN "Current password is required to change password"
         ELSE IF Len(newPassword) = 0 THEN "New password is required"
         ELSE IF newPassword # confirmPassword THEN "Passwords do not match"
         ELSE validatePassword(newPassword)
    ELSE ""

NoUpdate == [sent |-> FALSE, name |-> "", withPassword |-> FALSE,
             password |-> <<>>, current_password |-> <<>>]

\* updateData of the request handleSave sends
UpdateData ==
    [sent |-> TRUE,
     name |-> IF nameField # profile.name THEN nameField ELSE "",
     withPassword |-> (Len(newPassword) > 0 /\ Len(currentPassword) > 0),
     password |-> IF Len(newPassword) > 0 /\ Len(currentPassword) > 0
                  THEN newPassword ELSE <<>>,
     current_password |-> IF Len(newPassword) > 0 /\ Len(currentPassword) > 0
                          THEN currentPassword ELSE <<>>]

\* handleSave up to await updateProfile (the Save button, enabled while
\* !isSaving && hasChanges)
HandleSave ==
    /\ ~isSaving /\ hasChanges
    /\ user # Null /\ profile.loaded
    /\ IF SaveRefused # ""
       THEN /\ lastSave' = [current |-> currentPassword, new |-> newPassword,
                            confirm |-> confirmPassword, toast |-> SaveRefused,
                            request |-> NoUpdate, isSaving |-> isSaving]
            /\ UNCHANGED <<isSaving, saving>>
       ELSE /\ isSaving' = TRUE
            /\ saving' = "updateProfile"
            /\ lastSave' = [current |-> currentPassword, new |-> newPassword,
                            confirm |-> confirmPassword, toast |-> "",
                            request |-> UpdateData, isSaving |-> TRUE]
    /\ UNCHANGED <<profile, nameField, currentPassword, newPassword, confirmPassword,
                   serverName>>
    /\ UNCHANGED nonProfile

\* handleSave after await updateProfile: on success the password fields are
\* reset and fetchProfile is awaited; otherwise the toasts and finally.
UpdateProfileResp(ok) ==
    /\ saving = "updateProfile"
    /\ IF ok
       THEN /\ currentPassword' = <<>>
            /\ newPassword' = <<>>
            /\ confirmPassword' = <<>>
            /\ serverName' = IF lastSave.request.name # "" THEN lastSave.request.name
                             ELSE serverName
            /\ saving' = "fetchProfile"
            /\ UNCHANGED isSaving
       ELSE /\ saving' = "none"
            /\ isSaving' = FALSE
            /\ UNCHANGED <<currentPassword, newPassword, confirmPassword, serverName>>
    /\ UNCHANGED <<profile, nameField, lastSave>>
    /\ UNCHANGED nonProfile

\* handleSave after await fetchProfile() and await checkAuth(): finally
SaveRefreshed(ok) ==
    /\ saving = "fetchProfile"
    /\ IF ok
       THEN profile' = Profile(serverName) /\ nameField' = serverName
       ELSE UNCHANGED <<profile, nameField>>
    /\ saving' = "none"
    /\ isSaving' = FALSE
    /\ UNCHANGED <<currentPassword, newPassword, confirmPassword, serverName, lastSave>>
    /\ UNCHANGED nonProfile

\* handleCancel
HandleCancel ==
    /\ ~isSaving /\ hasChanges
    /\ nameField' = IF profile.loaded THEN profile.name ELSE nameField
    /\ currentPassword' = <<>>
    /\ newPassword' = <<>>
    /\ confirmPassword' = <<>>
    /\ UNCHANGED <<profile, isSaving, saving, serverName, lastSave>>
    /\ UNCHANGED nonProfile

NoSave == [current |-> <<>>, new |-> <<>>, confirm |-> <<>>, toast |-> "",
           request |-> NoUpdate, isSaving |-> FALSE]

InitProfile ==
    /\ profile = NoProfile
    /\ nameField = ""
    /\ currentPassword = <<>>
    /\ newPassword = <<>>
    /\ confirmPassword = <<>>
    /\ isSaving = FALSE
    /\ saving = "none"
    /\ serverName = "Ann"
    /\ lastSave = NoSave

NextProfile ==
    \/ \E ok \in BOOLEAN : FetchProfileResp(ok)
    \/ \E n \in ProfileNames : SetName(n)
    \/ \E p \in CurrentPasswords : SetCurrentPassword(p)
    \/ \E p \in NewPasswords : SetNewPassword(p)
    \/ \E p \in NewPasswords : SetConfirmPassword(p)
    \/ HandleSave
    \/ \E ok \in BOOLEAN : UpdateProfileResp(ok)
    \/ \E ok \in BOOLEAN : SaveRefreshed(ok)
    \/ HandleCancel

-----------------------------------------------------------------------------
(* The Forum's feed: fetchPosts, its effect and its timer *)

Filters(q, t) == [search |-> q, topic |-> t]
NoFilters == [search |-> "none", topic |-> "none"]

\* fetchPosts up to await getPosts, called from a render with the filters f
FetchPostsCall(f) ==
    /\ getPostsIssued < MaxGetPosts
    /\ getPostsIssued' = getPostsIssued + 1
    /\ getPostsCalls' = getPostsCalls \cup
          {[n |-> getPostsIssued + 1, search |-> f.search, topic |-> f.topic]}
    /\ latestGetPosts' = "pending"
    /\ UNCHANGED <<posts, postsFor>>

\* The Forum is opened: the effect fetches and starts the timer.
FeedMount ==
    /\ MountEffect("Forum")
    /\ FetchPostsCall(Filters(forumSearch, topicFilter))
    /\ UNCHANGED nonFeed

\* The search box or the topic select changes: the effect runs again, with a
\* fetchPosts that sends the new filters.
FeedSetFilter(q, t) ==
    /\ ForumFilterEffect(q, t)
    /\ FetchPostsCall(Filters(q, t))
    /\ UNCHANGED nonFeed

\* The Forum's timer fires: the fetchPosts of the render its effect ran in.
FeedTimerFires(t) ==
    /\ t.comp = "Forum"
    /\ TimerCallback(t)
    /\ FetchPostsCall(Filters(forumSearch, topicFilter))
    /\ UNCHANGED nonFeed

\* response.status === 'success' && response.posts
FetchPostsUses(c, outcome) == outcome = "success"

\* fetchPosts after await getPosts
FeedPostsResp(c, outcome, ps) ==
    /\ c \in getPostsCalls
    /\ getPostsCalls' = getPostsCalls \ {c}
    /\ IF FetchPostsUses(c, outcome)
       THEN posts' = ps /\ postsFor' = Filters(c.search, c.topic)
       ELSE UNCHANGED <<posts, postsFor>>
    /\ latestGetPosts' = IF c.n = getPostsIssued
                         THEN (IF outcome = "success" THEN "success" ELSE "error")
                         ELSE latestGetPosts
    /\ UNCHANGED getPostsIssued
    /\ UNCHANGED pollVars
    /\ UNCHANGED nonFeed

GetPostsCalls ==
    [n : 1..MaxGetPosts, search : ForumQueries, topic : ForumTopicFilters]

InitFeed ==
    /\ getPostsCalls = {}
    /\ getPostsIssued = 0
    /\ latestGetPosts = "none"
    /\ postsFor = NoFilters

NextFeed ==
    \/ FeedMount
    \/ \E q \in ForumQueries, t \in ForumTopicFilters : FeedSetFilter(q, t)
    \/ \E t \in timers : FeedTimerFires(t)
    \/ \E c \in GetPostsCalls, o \in ForumOutcomes, ps \in SUBSET ForumPosts :
          FeedPostsResp(c, o, ps)

-----------------------------------------------------------------------------
(* AppHeader: the notifications dropdown and its unread badge *)

NotificationIds == <<"n1", "n2", "n3", "n4", "n5", "n6">>
DropdownSize == 5

Notification(i, read) == [id |-> NotificationIds[i], is_read |-> read]

\* response.notifications of a successful getNotifications: none, two or six
\* notifications, each read or unread
NotificationLists ==
    UNION { [1..len -> BOOLEAN] : len \in {0, 2, Len(NotificationIds)} }

\* list.slice(0, 5)
Slice5(list) == [i \in 1..Min(Len(list), DropdownSize) |-> list[i]]

\* list.filter(n => !n.is_read).length
Unread(list) == Cardinality({ i \in 1..Len(list) : ~list[i].is_read })

Max(x, y) == IF x > y THEN x ELSE y

\* fetchNotifications up to await getNotifications (effect or timer)
FetchNotifications ==
    /\ user # Null
    /\ notificationCalls < MaxNotificationCalls
    /\ notificationCalls' = notificationCalls + 1
    /\ UNCHANGED <<notifications, unreadCount, markCalls>>
    /\ UNCHANGED nonHeader

\* fetchNotifications after await getNotifications
FetchNotificationsResp(ok, reads) ==
    /\ notificationCalls > 0
    /\ notificationCalls' = notificationCalls - 1
    /\ IF ok
       THEN LET list == [i \in 1..Len(reads) |-> Notification(i, reads[i])]
            IN /\ notifications' = Slice5(list)
               /\ unreadCount' = Unread(list)
       ELSE UNCHANGED <<notifications, unreadCount>>
    /\ UNCHANGED markCalls
    /\ UNCHANGED nonHeader

FreeMarkId == CHOOSE n \in 1..MaxMarkCalls : \A c \in markCalls : c.n # n

\* handleMarkAsRead up to await markNotificationRead: a click on a notification
\* of the dropdown, read or unread
HandleMarkAsRead(notificationId) ==
    /\ user # Null
    /\ \E i \in 1..Len(notifications) : notifications[i].id = notificationId
    /\ Cardinality(markCalls) < MaxMarkCalls
    /\ markCalls' = markCalls \cup {[n |-> FreeMarkId, id |-> notificationId]}
    /\ UNCHANGED <<notifications, unreadCount, notificationCalls>>
    /\ UNCHANGED nonHeader

\* handleMarkAsRead after await markNotificationRead, whatever it resolved to
MarkAsReadResp(c, ok) ==
    /\ c \in markCalls
    /\ markCalls' = markCalls \ {c}
    /\ notifications' = [i \in 1..Len(notifications) |->
                            IF notifications[i].id = c.id
                            THEN [notifications[i] EXCEPT !.is_read = TRUE]
                            ELSE notifications[i]]
    /\ unreadCount' = Max(0, unreadCount - 1)
    /\ UNCHANGED notificationCalls
    /\ UNCHANGED nonHeader

MarkCalls == [n : 1..MaxMarkCalls, id : { NotificationIds[i] : i \in 1..Len(NotificationIds) }]

InitHeader ==
    /\ notifications = <<>>
    /\ unreadCount = 0
    /\ notificationCalls = 0
    /\ markCalls = {}

NextHeader ==
    \/ FetchNotifications
    \/ \E ok \in BOOLEAN, reads \in NotificationLists : FetchNotificationsResp(ok, reads)
    \/ \E i \in 1..Len(NotificationIds) : HandleMarkAsRead(NotificationIds[i])
    \/ \E c \in MarkCalls, ok \in BOOLEAN : MarkAsReadResp(c, ok)

-----------------------------------------------------------------------------
(* Specifications *)

Admin == [id |-> "a1", role |-> "admin"]

InitAuthPage ==
    /\ InitAuth
    /\ InitContent /\ InitPoll /\ InitApi /\ NoUpload /\ InitForum /\ InitProfile
    /\ InitFeed /\ InitHeader

SpecAuth == InitAuthPage /\ [][NextAuth]_vars

InitAdminContent ==
    /\ AuthLoggedIn(Admin)
    /\ InitContent /\ InitPoll /\ InitApi /\ NoUpload /\ InitForum /\ InitProfile
    /\ InitFeed /\ InitHeader

SpecContent == InitAdminContent /\ [][NextContent]_vars

\* The page as login has left it, for either account.
InitPolling ==
    /\ (\E u \in Users : AuthLoggedIn(u))
    /\ InitContent /\ InitPoll /\ InitApi /\ NoUpload /\ InitForum /\ InitProfile
    /\ InitFeed /\ InitHeader

SpecPoll == InitPolling /\ [][NextPoll]_vars

InitServices ==
    /\ AuthLoggedIn(Admin)
    /\ InitContent /\ InitPoll /\ InitApi /\ NoUpload /\ InitForum /\ InitProfile
    /\ InitFeed /\ InitHeader

SpecApi == InitServices /\ [][NextApi]_vars

\* The Upload page or the Dashboard, opened by a user or (Upload) without one.
AuthLoggedOut ==
    /\ storage = NoSession
    /\ user = Null
    /\ isLoading = FALSE
    /\ mounted = TRUE
    /\ verifying = {}
    /\ loginPending = 0
    /\ loginResult = "none"
    /\ loginData = LoginThrow
    /\ pendingSaves = 0
    /\ loginOk = FALSE
    /\ verifiedOk = FALSE
    /\ loggedOut = FALSE

InitUploads ==
    /\ AuthLoggedOut \/ AuthLoggedIn([id |-> "u1", role |-> "user"])
    /\ InitContent /\ InitPoll /\ InitApi /\ InitUpload /\ InitForum /\ InitProfile /\ InitFeed /\ InitHeader

SpecUpload == InitUploads /\ [][NextUpload]_vars

\* The Forum, opened by a user, by an admin, or without a session.
InitForumPage ==
    /\ AuthLoggedOut \/ (\E u \in Users : AuthLoggedIn(u))
    /\ InitContent /\ InitPoll /\ InitApi /\ NoUpload /\ InitForum /\ InitProfile /\ InitFeed /\ InitHeader

SpecForum == InitForumPage /\ [][NextForum]_vars

\* The Profile page, opened by a user.
InitProfilePage ==
    /\ AuthLoggedIn([id |-> "u1", role |-> "user"])
    /\ InitContent /\ InitPoll /\ InitApi /\ NoUpload /\ InitForum /\ InitProfile /\ InitFeed /\ InitHeader

SpecProfile == InitProfilePage /\ [][NextProfile]_vars

\* The Forum's feed, from before the page is opened.
InitFeedPage ==
    /\ AuthLoggedIn([id |-> "u1", role |-> "user"])
    /\ InitContent /\ InitPoll /\ InitApi /\ NoUpload /\ InitForum /\ InitProfile
    /\ InitFeed /\ InitHeader

SpecFeed == InitFeedPage /\ [][NextFeed]_vars

\* AppHeader, rendered for a user.
InitHeaderPage ==
    /\ AuthLoggedIn([id |-> "u1", role |-> "user"])
    /\ InitContent /\ InitPoll /\ InitApi /\ NoUpload /\ InitForum /\ InitProfile
    /\ InitFeed /\ InitHeader

SpecHeader == InitHeaderPage /\ [][NextHeader]_vars

-----------------------------------------------------------------------------
(* Claims about the authentication context *)

\* C1: whenever AuthContext.user is non-null, a login call has succeeded or a
\* verify call has answered OK with status 'success' since the page was loaded.
C1_AuthenticatedOnlyAfterVerify ==
    user # Null => (loginOk \/ verifiedOk)

\* The case C1 is about: a stored session made the user authenticated.
C1_StoredSessionAuthenticates ==
    user # Null /\ ~loginOk /\ storage \in Sessions

\* C2: a login call returns true, writes authSession {loggedIn: true, user, token}
\* and sets user to the returned user if and only if the response has status
\* 'success' with a user and a token; otherwise it returns false and leaves user
\* and the authSession entry as they were.
C2_LoginIffSuccess ==
    [][loginPending' < loginPending =>
        IF loginData'.status = "success" /\ loginData'.user \in Users
                /\ loginData'.token \in Tokens
        THEN /\ loginResult' = "true"
             /\ storage' = [kind |-> "session", loggedIn |-> TRUE,
                            user |-> loginData'.user, token |-> loginData'.token]
             /\ user' = loginData'.user
        ELSE /\ loginResult' = "false"
             /\ user' = user
             /\ storage' = storage]_vars

\* A login has succeeded and its session is the one stored.
C2_LoginSucceeded ==
    /\ loginResult = "true"
    /\ user \in Users
    /\ storage = Session(TRUE, user, loginData.token)

\* C3: on each admin route AdminRoute renders the spinner while isLoading, redirects
\* to /login without a user and to /dashboard with a non-admin user, and renders
\* its children exactly when isLoading is false and the user is an admin.
C3_AdminRouteGuards ==
    \A p \in AdminPaths :
        /\ isLoading => AdminRoute(p) = "spinner"
        /\ (~isLoading /\ user = Null) => AdminRoute(p) = "navigate:/login"
        /\ (~isLoading /\ user # Null /\ user.role # "admin")
              => AdminRoute(p) = "navigate:/dashboard"
        /\ AdminRoute(p) = "children:" \o p
              <=> (~isLoading /\ user # Null /\ user.role = "admin")

\* An admin is shown an admin page after a logout and a new login.
C3_AdminSeesChildren ==
    /\ AdminRoute("/admin/content") = "children:/admin/content"
    /\ loginOk /\ verifiedOk

-----------------------------------------------------------------------------
(* Claims about AdminContent *)

\* C4: once deleteReport has returned success for a report and no fetchReports
\* call is in flight, the report is in neither reports nor filteredReports.
C4_DeletedReportNotListed ==
    fetches = {} =>
        \A r \in Reports :
            r.id \in deletedOk => (r \notin reports /\ r \notin filteredReports)

\* The case C4 is about: a report was deleted and the fetch that handleDeleteReport
\* started has completed.
C4_DeletedAndRefetched ==
    /\ deletedOk # {}
    /\ fetches = {} /\ deletes = {}
    /\ \A r \in Reports : r.id \in deletedOk => r \notin reports

-----------------------------------------------------------------------------
(* Claims about the polling components *)

TimersOf(c) == { t \in timers : t.comp = c }

\* C5: each polling component fetches once when its effect runs and once per tick
\* of its interval (30 s for AppHeader and Dashboard, 10 s for Forum); it has at
\* most one active timer, the one its latest effect run created, and none when
\* unmounted; AppHeader and Dashboard have no timer while no user is logged in.
C5_OneTimerPerComponent ==
    \A c \in Components :
        /\ Cardinality(TimersOf(c)) <= 1
        /\ \A t \in TimersOf(c) :
              /\ compMounted[c]
              /\ t.id = effectTimer[c]
              /\ t.period = IF c = "Forum" THEN 10000 ELSE 30000
        /\ (c \in {"AppHeader", "Dashboard"} /\ user = Null) => TimersOf(c) = {}
        /\ pollStep[c] = "effect" => (pollFetched[c] = 1 /\ TimersOf(c) # {})
        /\ pollStep[c] = "tick" => (pollFetched[c] = 1 /\ TimersOf(c) # {})
        /\ pollStep[c] = "effect_skipped"
              => (c \in {"AppHeader", "Dashboard"} /\ user = Null /\ pollFetched[c] = 0)
        /\ pollStep[c] \in {"cleanup", "none"} => pollFetched[c] = 0
        /\ (compMounted[c] /\ (c = "Forum" \/ user # Null)) => TimersOf(c) # {}

\* All three components poll, and Forum's effect has just run again after a change
\* of its filters, with a timer other than its first.
C5_EffectRanAgain ==
    /\ \A c \in Components : Cardinality(TimersOf(c)) = 1
    /\ pollStep["Forum"] = "effect"
    /\ <<forumSearch, topicFilter>> # <<"", "">>

-----------------------------------------------------------------------------
(* Claims about the fetch wrappers *)

\* The request failed at network level, the HTTP status was not OK, or the body
\* could not be parsed.
RequestFailed(o) ==
    \/ o.kind = "network"
    \/ o.code \notin {"200"}
    \/ o.body.json \in {"unparsable", "unreadable"}

\* C6: a call of any service method issues exactly one HTTP request, its promise
\* never rejects, and when the request failed it resolves to an object with
\* status 'error' and a non-empty message.
C6_ServiceNeverRejects ==
    /\ apiPhase # "idle" => apiRequests = 1
    /\ apiPhase = "returned" =>
          /\ apiResult.settled = "resolved"
          /\ RequestFailed(apiOutcome) =>
                /\ apiResult.value.json = "object"
                /\ apiResult.value.status = "error"
                /\ apiResult.value.message \notin {"", "undefined"}

\* A call has returned after a non-OK answer whose error body was not JSON.
C6_ErrorReported ==
    /\ apiPhase = "returned"
    /\ apiMethod.service = "AdminApiService" /\ apiMethod.method = "resetUserData"
    /\ apiOutcome.code = "500" /\ apiOutcome.body.json = "unparsable"
    /\ apiResult.value.message = "HTTP error! status: 500"

-----------------------------------------------------------------------------
(* C7: the 500 MB / video-type limit *)

VideoTypes == {"video/mp4", "video/avi", "video/mov", "video/webm", "video/quicktime"}

OverLimit(id) ==
    fileInfo[id].type \notin VideoTypes \/ fileInfo[id].size > 500 * 1024 * 1024

EntriesOf(q, id) == { i \in 1..Len(q) : q[i].file.id = id }

\* C7: a file of a type other than the five video types, or larger than
\* 500*1024*1024 bytes, never causes a predictVideo request; the Upload page
\* queues it with status 'error' and an error message and it keeps that status,
\* the Dashboard does not select it and leaves selectedFile, uploadProgress and
\* predictionResult as they were.  Any other file, one of exactly 500*1024*1024
\* bytes included, is accepted: queued as 'uploading', or selected.
C7_LimitEnforced ==
    /\ [](\A id \in FileIds : OverLimit(id) =>
            /\ jobs[id].nPredict = 0
            /\ selectedFile.id # id
            /\ \A i \in EntriesOf(files, id) :
                  files[i].status = "error" /\ files[i].error # "")
    /\ [][\A id \in FileIds :
            /\ (~jobs[id].added /\ jobs'[id].added /\ page = "upload") =>
                  \E i \in EntriesOf(files', id) :
                      /\ files'[i].uploadProgress = 0
                      /\ files'[i].status = IF OverLimit(id) THEN "error" ELSE "uploading"
            /\ (picked' # picked /\ picked'.id = id) =>
                  IF OverLimit(id)
                  THEN UNCHANGED <<selectedFile, uploadProgress, predictionResult>>
                  ELSE selectedFile' = File(id)]_vars

\* The Dashboard holds the analysis of a file of exactly 500*1024*1024 bytes and
\* has just turned away a video one byte larger.
C7_LimitReached ==
    /\ page = "dashboard"
    /\ selectedFile # NoFile
    /\ selectedFile.size = 500 * 1024 * 1024
    /\ predictionFor = selectedFile.id
    /\ picked.type \in VideoTypes
    /\ picked.size = 500 * 1024 * 1024 + 1

-----------------------------------------------------------------------------
(* C8: the life of an entry of the Upload page's queue *)

EntryOf(q, id) == q[CHOOSE i \in EntriesOf(q, id) : TRUE]

Stays(id) == EntriesOf(files, id) # {} /\ EntriesOf(files', id) # {}

\* An entry that was added as valid: everything but a refusal at progress 0
AddedValid(f) == ~(f.status = "error" /\ f.uploadProgress = 0)

\* C8: an entry added as valid goes uploading -> analyzing -> (completed | error)
\* and no other way; its uploadProgress starts at 0, rises by 10 at a time and
\* never exceeds 100; it is 'analyzing' from the very step in which the progress
\* reaches 100; 'completed' and 'error' are final; a 'completed' entry has a
\* result and an 'error' entry an error message; and a step that changes the entry
\* of one file leaves the entries of the other files as they are.
C8_QueueTransitions ==
    /\ [](\A i \in 1..Len(files) :
            LET f == files[i] IN
            /\ f.status \in {"uploading", "analyzing", "completed", "error"}
            /\ f.uploadProgress \in {0, 10, 20, 30, 40, 50, 60, 70, 80, 90, 100}
            /\ AddedValid(f) => (f.status = "uploading" <=> f.uploadProgress < 100)
            /\ f.status = "completed" => f.result # NoResult
            /\ f.status = "error" => f.error # "")
    /\ [][\A id \in FileIds :
            /\ (~Stays(id) /\ EntriesOf(files', id) # {}) =>
                  /\ EntryOf(files', id).uploadProgress = 0
                  /\ EntryOf(files', id).status \in {"uploading", "error"}
            /\ Stays(id) =>
                LET f == EntryOf(files, id)
                    g == EntryOf(files', id)
                IN /\ f.status = "uploading" =>
                         \/ g = f
                         \/ /\ g.uploadProgress = f.uploadProgress + 10
                            /\ g.status = IF g.uploadProgress = 100 THEN "analyzing"
                                          ELSE "uploading"
                   /\ f.status = "analyzing" =>
                         /\ g.status \in {"analyzing", "completed", "error"}
                         /\ g.uploadProgress = f.uploadProgress
                   /\ f.status \in {"completed", "error"} => g = f
                   /\ g # f => \A other \in FileIds \ {id} :
                                  Stays(other) => EntryOf(files', other) = EntryOf(files, other)
         ]_vars

\* The analysis of one file has failed while another file is half way through
\* its upload.
C8_QueueAtWork ==
    /\ \E i \in 1..Len(files) : files[i].status = "error" /\ files[i].uploadProgress = 100
    /\ \E i \in 1..Len(files) : files[i].status = "uploading" /\ files[i].uploadProgress = 50

-----------------------------------------------------------------------------
(* C9: the Upload page records a successful analysis *)

\* C9: for a file whose predictVideo succeeded while a user was authenticated the
\* Upload page issues exactly one createHistory request, and exactly one
\* createAnalysis request, which goes out when createHistory has completed, with
\* success or with an error, and not before; 'Analysis Complete' is shown only
\* when both have completed.  For a file whose predictVideo failed it issues
\* neither request.
C9_RecordsOnce ==
    page = "upload" =>
      \A id \in FileIds :
        LET j == jobs[id] IN
        /\ j.predicted = "failure" => j.nHistory = 0 /\ j.nAnalysis = 0
        /\ j.predicted = "none" => j.nHistory = 0 /\ j.nAnalysis = 0
        /\ (j.predicted = "success" /\ j.owner # Null) =>
              /\ j.nHistory = 1
              /\ j.nAnalysis = IF j.history \in {"success", "error"} THEN 1 ELSE 0
              /\ j.toast = "Analysis Complete" =>
                    j.history \in {"success", "error"} /\ j.phase = "done"
              /\ j.phase = "done" => j.toast = "Analysis Complete"

\* createHistory returned an error, createAnalysis went out all the same, and the
\* notification has been shown.
C9_RecordedAfterHistoryError ==
    /\ page = "upload"
    /\ \E id \in FileIds :
          /\ jobs[id].owner # Null
          /\ jobs[id].history = "error"
          /\ jobs[id].nAnalysis = 1
          /\ jobs[id].toast = "Analysis Complete"

-----------------------------------------------------------------------------
(* C10: who can delete in the Forum, and the dialog afterwards *)

OwnerOf(type, id) ==
    LET items == IF type = "post" THEN ForumPosts ELSE ForumComments
    IN (CHOOSE item \in items : item.id = id).user_id

\* C10: every deletePost / deleteComment request is for a post or comment that
\* exists and belongs to the user who issues it, or is issued by an admin, and
\* none is issued without a user; and the step in which a call of handleDelete
\* finishes, whatever its requests came to, leaves the delete dialog as
\* {open: false, type: 'post', id: ''}.
C10_ForumModeration ==
    /\ [](\A r \in deleteRequests :
            /\ r.by # Null
            /\ r.id \in { item.id : item \in IF r.type = "post" THEN ForumPosts
                                             ELSE ForumComments }
            /\ r.by.role = "admin" \/ OwnerOf(r.type, r.id) = r.by.id)
    /\ [](user = Null => deleteRequests = {} /\ deleteDialog = ClosedDialog)
    /\ [][Cardinality(handleDeletes') < Cardinality(handleDeletes)
            => deleteDialog' = ClosedDialog]_vars

\* An admin has asked for the deletion of what belongs to another user, and the
\* call of handleDelete has finished.
C10_AdminDeleted ==
    /\ user # Null /\ user.role = "admin"
    /\ \E r \in deleteRequests : OwnerOf(r.type, r.id) # user.id /\ r.outcome = "success"
    /\ \E r \in deleteRequests : r.outcome = "error"
    /\ handleDeletes = {}
    /\ deleteDialog = ClosedDialog

-----------------------------------------------------------------------------
(* C11: the password policy of the Profile page *)

PasswordPolicy(p) ==
    /\ Len(p) >= 8
    /\ \E i \in 1..Len(p) : p[i] \in {"a", "b", "c", "d", "e", "f", "g", "h"}
    /\ \E i \in 1..Len(p) : p[i] \in {"A", "B", "C", "D", "E", "F", "G", "H"}
    /\ \E i \in 1..Len(p) : p[i] \in {"0", "1", "2", "3", "4", "5", "6", "7", "8", "9"}

PasswordChangeAllowed(s) ==
    s.current # <<>> /\ s.new = s.confirm /\ PasswordPolicy(s.new)

\* C11: a call of handleSave sends updateProfile with a password only when the
\* current password is non-empty, the new password equals its confirmation and
\* has at least 8 characters with a lowercase letter, an uppercase letter and a
\* digit among them, and what it sends is that new password; when one of the
\* three password fields is non-empty and one of these checks fails, it sends
\* no request and isSaving is false after it.
C11_PasswordPolicy ==
    LET s == lastSave IN
    /\ s.request.withPassword =>
          /\ PasswordChangeAllowed(s)
          /\ s.request.password = s.new
          /\ s.request.current_password = s.current
    /\ ((s.current # <<>> \/ s.new # <<>> \/ s.confirm # <<>>)
          /\ ~PasswordChangeAllowed(s)) =>
          ~s.request.sent /\ ~s.isSaving /\ s.toast # ""
    /\ (saving = "none") = ~isSaving

\* A password without a digit has been refused after a valid one was sent and
\* accepted by the server.
C11_RefusedNoDigit ==
    /\ lastSave.toast = "Password must contain at least one number"
    /\ lastSave.current # <<>>
    /\ lastSave.new = lastSave.confirm
    /\ ~isSaving
    /\ serverName = "Bea"

-----------------------------------------------------------------------------
(* C12: logout and a checkAuth that is still waiting *)

\* C12: from a call of logout until the next login that succeeds, user is null
\* and localStorage holds no authSession, whatever answers arrive for checkAuth
\* calls that were awaiting /api/auth/verify when logout was called.
C12_LogoutStays ==
    loggedOut => (user = Null /\ storage = NoSession)

\* After a logout, with no login since, the answer to a verify request issued
\* before it has put the user back while localStorage holds no session.
C12_UserBackAfterLogout ==
    /\ loggedOut
    /\ user # Null
    /\ storage = NoSession
    /\ verifying = {}
    /\ loginPending = 0

-----------------------------------------------------------------------------
(* C13: the result on the Dashboard card and the selected file *)

\* C13: on the Dashboard, a predictionResult that is not null is the prediction
\* returned for the file held in selectedFile: none is shown while no file is
\* selected, and none that was returned for another file.
C13_ResultOfSelectedFile ==
    (page = "dashboard" /\ predictionResult # NoResult) =>
        (selectedFile # NoFile /\ predictionFor = selectedFile.id)

\* A second file was dropped while the first was in flight; the answer for the
\* first is on display under the second file's name, and nothing is running.
C13_ResultOfOtherFile ==
    /\ page = "dashboard"
    /\ predictionResult # NoResult
    /\ selectedFile # NoFile
    /\ predictionFor # selectedFile.id
    /\ \A id \in FileIds : ~jobs[id].interval /\ jobs[id].phase \in {"none", "done"}

-----------------------------------------------------------------------------
(* C14: the posts on display and the filters *)

\* C14: when no getPosts request is in flight and the one issued last has
\* succeeded, posts holds the answer to a request that was issued for the
\* current searchQuery and topicFilter: an answer to a request issued for
\* earlier filters has not replaced it, in whatever order the answers arrived.
C14_PostsOfCurrentFilters ==
    (getPostsCalls = {} /\ latestGetPosts = "success") =>
        postsFor = Filters(forumSearch, topicFilter)

\* The request for the current filters was answered first and with success, the
\* request for the earlier filters after it: posts holds the earlier answer.
C14_EarlierAnswerOnDisplay ==
    /\ getPostsCalls = {}
    /\ latestGetPosts = "success"
    /\ postsFor # NoFilters
    /\ postsFor # Filters(forumSearch, topicFilter)

-----------------------------------------------------------------------------
(* C15: the unread badge of AppHeader *)

UnreadInDropdown ==
    Cardinality({ i \in 1..Len(notifications) : ~notifications[i].is_read })

\* C15: unreadCount is never negative and never smaller than the number of
\* notifications in the dropdown list whose is_read is false.
C15_UnreadCountCovers ==
    unreadCount >= 0 /\ unreadCount >= UnreadInDropdown

\* With nothing in flight the badge shows no unread notification while the
\* dropdown holds one.
C15_BadgeBelowDropdown ==
    /\ notificationCalls = 0
    /\ markCalls = {}
    /\ unreadCount = 0
    /\ UnreadInDropdown > 0

=============================================================================
